---- MODULE Spec2Model ----
(***************************************************************************)
(* Model of the tariff calculator hooks:                                   *)
(*   - useWarehouseCheck (src/client/hooks/useWarehouseCheck.ts): the      *)
(*     availability index (warehouses, lockers, loading, error), its load  *)
(*     at mount and the evaluators hasWarehouse, hasLocker,                *)
(*     shouldShowWarehouseWarning and shouldDisableCalculation;            *)
(*   - useRegionBasedTariffCalculator (src/client/hooks/                   *)
(*     useRegionBasedTariffCalculator.ts): form state, the cities load,    *)
(*     isCalculationDisabled and calculateTariff.                          *)
(*                                                                         *)
(* Encodings.  A JavaScript string is a tuple of one-character strings     *)
(* ("Ta" is <<"T","a">>, "" is <<>>).  A nullable value v|null is a tuple  *)
(* of length at most one: <<>> is null and <<v>> is the value v.  A        *)
(* message produced by formatMessage(t.key, params) is the tuple of the    *)
(* key followed by the parameter strings; the empty message "" is <<>>.    *)
(***************************************************************************)
EXTENDS Integers, Sequences, FiniteSets, TLC

VARIABLES
    \* ---- useWarehouseCheck state (useWarehouseCheck.ts lines 8-11) ----
    warehouses,         \* useState<Warehouse[]>([])
    lockers,            \* useState<Warehouse[]>([])
    loading,            \* useState(false)
    error,              \* useState<string | null>(null)
    \* ---- fetchData, the async function run by the mount effect ----
    pc,                 \* position of fetchData
    warehousesResponse, \* local of fetchData: <<>> or <<[ok |-> BOOLEAN]>>
    lockersResponse,    \* local of fetchData: <<>> or <<[ok |-> BOOLEAN]>>
    net,                \* what the two endpoints answer during this mount
    sent,               \* number of requests issued to each endpoint
    \* ---- the last evaluator call and what it returned ----
    call,
    returned,
    \* ---- useRegionBasedTariffCalculator state (lines 15-25) ----
    form,
    result,
    calcLoading,
    calcError,
    apiCities,
    citiesLoading,
    citiesPc,           \* position of loadCities
    inflight            \* POST /api/calculate-tariff requests not yet answered

hookVars == <<warehouses, lockers, loading, error, pc, warehousesResponse,
              lockersResponse, net, sent>>
callVars == <<call, returned>>
calcVars == <<form, result, calcLoading, calcError, apiCities, citiesLoading,
              citiesPc, inflight>>
vars == <<warehouses, lockers, loading, error, pc, warehousesResponse,
          lockersResponse, net, sent, call, returned, form, result,
          calcLoading, calcError, apiCities, citiesLoading, citiesPc,
          inflight>>

----------------------------------------------------------------------------
(* Bounds *)

\* longest service-point list an endpoint returns
MaxList == 2
\* most calculate requests in flight at once
MaxInFlight == 2

----------------------------------------------------------------------------
(* Strings *)

Null == <<>>
Some(v) == <<v>>

Ta == <<"T", "a">>
LowerTa == <<"t", "a">>
LeadTa == <<" ", "T", "a">>
TrailTa == <<"T", "a", " ">>
So == <<"S", "o">>
EmptyString == <<>>

\* String.prototype.toLowerCase on the characters used here
LowerChar(c) ==
    CASE c = "T" -> "t"
      [] c = "S" -> "s"
      [] c = "N" -> "n"
      [] c = "C" -> "c"
      [] OTHER -> c

ToLowerCase(s) == [i \in 1..Len(s) |-> LowerChar(s[i])]

\* String.prototype.trim: drop leading and trailing white space
Trim(s) ==
    LET keep == {i \in 1..Len(s) : s[i] # " "}
        first == CHOOSE i \in keep : \A j \in keep : i <= j
        last == CHOOSE i \in keep : \A j \in keep : j <= i
    IN  IF keep = {} THEN <<>> ELSE SubSeq(s, first, last)

\* JavaScript truthiness of a string | null value
Truthy(optString) == optString # Null /\ optString[1] # EmptyString

----------------------------------------------------------------------------
(* Data *)

TariffTypes == {"OFFICE_OFFICE", "OFFICE_DOOR", "DOOR_OFFICE",
                "OFFICE_POSTAMAT", "DOOR_POSTAMAT", "DOOR_DOOR"}
NullTariff == "null"

City(id, name, lat, lng) ==
    [id |-> id, name |-> name, center_latitude |-> lat, center_longitude |-> lng]

\* the cities prop of useWarehouseCheck(cities)
CitiesProp ==
    << City(1, Ta, <<"4">>, <<"6">>),
       City(2, So, <<"3">>, <<"6">>),
       City(3, EmptyString, <<"3">>, <<"6">>) >>

\* a city object the caller may pass that is not in the cities prop
UnlistedCity == City(9, Ta, <<"4">>, <<"6">>)
\* a city object whose id is 0
ZeroIdCity == City(0, So, <<"3">>, <<"6">>)

CityArgs == {Null} \cup {Some(CitiesProp[i]) : i \in 1..Len(CitiesProp)}
                   \cup {Some(UnlistedCity), Some(ZeroIdCity)}

NameArgs == {Null} \cup {Some(n) : n \in {Ta, LowerTa, LeadTa, TrailTa, So, EmptyString}}

ServicePoint(city) == [city |-> city]

ServiceCities == {Ta, So}

RECURSIVE ListsUpTo(_)
ListsUpTo(n) ==
    IF n = 0 THEN {<<>>}
    ELSE LET shorter == ListsUpTo(n - 1)
         IN  shorter \cup {Append(l, ServicePoint(c)) :
                              l \in {s \in shorter : Len(s) = n - 1}, c \in ServiceCities}


----------------------------------------------------------------------------
(* The backend as seen during one mount *)

\* An endpoint's answer.  outcome: the fetch promise is rejected, or resolves
\* with a non-OK status, or resolves OK.  shape (OK answers): json() rejects
\* ("malformed"), or the body is {data: {list: items}} ("list"),
\* {data: items} ("flat") or {} ("nodata").
Answer(outcome, shape, items) == [outcome |-> outcome, shape |-> shape, items |-> items]

FailedAnswers == {Answer("rejected", "none", <<>>), Answer("notok", "none", <<>>)}

OkAnswers(lists) ==
    {Answer("ok", "malformed", <<>>), Answer("ok", "nodata", <<>>)}
    \cup {Answer("ok", sh, l) : sh \in {"list", "flat"}, l \in lists}

Answers == FailedAnswers \cup OkAnswers(ListsUpTo(MaxList))

\* data.data?.list || []
ExtractList(answer) ==
    IF answer.shape = "list" THEN answer.items ELSE <<>>

\* the text passed to setError in the catch block (Cyrillic in the source)
LoadErrorMessage == "Oshibka pri zagruzke dannyh"

----------------------------------------------------------------------------
(* useWarehouseCheck: fetchData *)

\* the evaluator call of the current render (see the section on calls below)
Call(fn, cityName, originCity, destinationCity, tariffType) ==
    [fn |-> fn, cityName |-> cityName, originCity |-> originCity,
     destinationCity |-> destinationCity, tariffType |-> tariffType]

NoCall == Call("none", Null, Null, Null, NullTariff)

\* a state change renders the component again: the previous render's values are gone
Rerender ==
    /\ call' = NoCall
    /\ returned' = FALSE

\* mutant: the catch block starts the load again
MutFetchDataCatch ==
    /\ error' = Some(LoadErrorMessage)
    /\ loading' = FALSE
    /\ pc' = "mount"

\* catch (e) { setError(...) } finally { setLoading(false) }
FetchDataCatch ==
    /\ error' = Some(LoadErrorMessage)
    /\ loading' = FALSE
    /\ pc' = "done"

\* mutant: setLoading(false) is not in a finally block and is skipped
MutFetchDataFinally ==
    /\ pc' = "done"
    /\ UNCHANGED loading

\* finally { setLoading(false) } on the normal path
FetchDataFinally ==
    /\ loading' = FALSE
    /\ pc' = "done"

\* the mount effect runs fetchData up to its first await
FetchDataStart ==
    /\ Rerender
    /\ UNCHANGED calcVars
    /\ pc = "mount"
    /\ loading' = TRUE
    /\ sent' = [sent EXCEPT !.warehouses = @ + 1]
    /\ pc' = "awaitWarehouses"
    /\ UNCHANGED <<warehouses, lockers, error, warehousesResponse, lockersResponse, net>>

\* await fetch("/api/warehouses") settles; on success fetch("/api/lockers") is issued
WarehousesFetchSettled ==
    /\ Rerender
    /\ UNCHANGED calcVars
    /\ pc = "awaitWarehouses"
    /\ IF net.warehouses.outcome = "rejected"
       THEN /\ FetchDataCatch
            /\ UNCHANGED <<warehousesResponse, sent>>
       ELSE /\ warehousesResponse' = Some([ok |-> net.warehouses.outcome = "ok"])
            /\ sent' = [sent EXCEPT !.lockers = @ + 1]
            /\ pc' = "awaitLockers"
            /\ UNCHANGED <<error, loading>>
    /\ UNCHANGED <<warehouses, lockers, lockersResponse, net>>

\* await fetch("/api/lockers") settles; runs on to the next await or to the end
LockersFetchSettled ==
    /\ Rerender
    /\ UNCHANGED calcVars
    /\ pc = "awaitLockers"
    /\ IF net.lockers.outcome = "rejected"
       THEN /\ FetchDataCatch
            /\ UNCHANGED lockersResponse
       ELSE /\ lockersResponse' = Some([ok |-> net.lockers.outcome = "ok"])
            /\ IF warehousesResponse[1].ok
               THEN pc' = "warehousesJson" /\ UNCHANGED loading
               ELSE IF net.lockers.outcome = "ok"
                    THEN pc' = "lockersJson" /\ UNCHANGED loading
                    ELSE FetchDataFinally
            /\ UNCHANGED error
    /\ UNCHANGED <<warehouses, lockers, warehousesResponse, net, sent>>

\* await warehousesResponse.json() settles; setWarehouses(data.data?.list || [])
WarehousesJsonSettled ==
    /\ Rerender
    /\ UNCHANGED calcVars
    /\ pc = "warehousesJson"
    /\ IF net.warehouses.shape = "malformed"
       THEN /\ FetchDataCatch
            /\ UNCHANGED warehouses
       ELSE /\ warehouses' = ExtractList(net.warehouses)
            /\ IF lockersResponse[1].ok
               THEN pc' = "lockersJson" /\ UNCHANGED loading
               ELSE FetchDataFinally
            /\ UNCHANGED error
    /\ UNCHANGED <<lockers, warehousesResponse, lockersResponse, net, sent>>

\* mutant: the lockers branch calls setWarehouses
MutLockersJsonSettled ==
    /\ Rerender
    /\ UNCHANGED calcVars
    /\ pc = "lockersJson"
    /\ IF net.lockers.shape = "malformed"
       THEN /\ FetchDataCatch
            /\ UNCHANGED warehouses
       ELSE /\ warehouses' = ExtractList(net.lockers)
            /\ FetchDataFinally
            /\ UNCHANGED error
    /\ UNCHANGED <<lockers, warehousesResponse, lockersResponse, net, sent>>

\* await lockersResponse.json() settles; setLockers(data.data?.list || [])
LockersJsonSettled ==
    /\ Rerender
    /\ UNCHANGED calcVars
    /\ pc = "lockersJson"
    /\ IF net.lockers.shape = "malformed"
       THEN /\ FetchDataCatch
            /\ UNCHANGED lockers
       ELSE /\ lockers' = ExtractList(net.lockers)
            /\ FetchDataFinally
            /\ UNCHANGED error
    /\ UNCHANGED <<warehouses, warehousesResponse, lockersResponse, net, sent>>

----------------------------------------------------------------------------
(* useWarehouseCheck: the evaluators *)

\* getCityNameById(id: number | null): string | null
GetCityNameById(id) ==
    IF id = Null \/ id[1] = 0 THEN Null
    ELSE LET hits == {i \in 1..Len(CitiesProp) : CitiesProp[i].id = id[1]}
             first == CHOOSE i \in hits : \A j \in hits : i <= j
         IN  IF hits = {} THEN Null
             ELSE IF CitiesProp[first].name # EmptyString
                  THEN Some(CitiesProp[first].name)
                  ELSE Null

\* originCity?.id || null
IdOrNull(city) ==
    IF city = Null \/ city[1].id = 0 THEN Null ELSE Some(city[1].id)

\* cityName || ""
OrEmpty(cityName) == IF Truthy(cityName) THEN cityName[1] ELSE EmptyString

\* mutant: every() in place of some()
MutSomeCityEquals(list, name) == \A i \in 1..Len(list) : list[i].city = name

\* list.some((w) => w.city === cityName)
SomeCityEquals(list, name) == \E i \in 1..Len(list) : list[i].city = name

HasWarehouse(cityName) ==
    IF ~Truthy(cityName) THEN FALSE
    ELSE SomeCityEquals(warehouses, cityName[1])

HasLocker(cityName) ==
    IF ~Truthy(cityName) THEN FALSE
    ELSE SomeCityEquals(lockers, cityName[1])

Warning(show, message) == [show |-> show, message |-> message]
NoWarning == Warning(FALSE, <<>>)

\* formatMessage(t.noOriginWarehouse, { city: originCityName || "" })
NoOriginWarehouse(originCityName) ==
    Warning(TRUE, <<"noOriginWarehouse", OrEmpty(originCityName)>>)

\* formatMessage(t.noDestinationWarehouse, { city: destinationCityName || "" })
NoDestinationWarehouse(destinationCityName) ==
    Warning(TRUE, <<"noDestinationWarehouse", OrEmpty(destinationCityName)>>)

\* formatMessage(t.noDestinationLocker, { city: destinationCityName || "" })
NoDestinationLocker(destinationCityName) ==
    Warning(TRUE, <<"noDestinationLocker", OrEmpty(destinationCityName)>>)

\* formatMessage(t.noOriginWarehouseAndDestinationLocker, { originCity, destinationCity })
NoOriginWarehouseAndDestinationLocker(originCityName, destinationCityName) ==
    Warning(TRUE, <<"noOriginWarehouseAndDestinationLocker",
                    OrEmpty(originCityName), OrEmpty(destinationCityName)>>)

\* mutant: the loading flag is not consulted
MutShowEarlyReturn(tariffType) == tariffType = NullTariff

\* if (!tariffType || loading) return { show: false, message: "" }
ShowEarlyReturn(tariffType) == tariffType = NullTariff \/ loading

\* mutant: the single-city branches come before the combined one
MutOfficeOfficeWarning(originCityName, destinationCityName, originHasWarehouse, destinationHasWarehouse) ==
    IF ~originHasWarehouse THEN NoOriginWarehouse(originCityName)
    ELSE IF ~destinationHasWarehouse THEN NoDestinationWarehouse(destinationCityName)
    ELSE NoWarning

\* the block if (tariffType === "OFFICE_OFFICE") { ... }
OfficeOfficeWarning(originCityName, destinationCityName, originHasWarehouse, destinationHasWarehouse) ==
    IF ~originHasWarehouse /\ ~destinationHasWarehouse
        THEN Warning(TRUE, <<"noWarehouses">>)
    ELSE IF ~originHasWarehouse THEN NoOriginWarehouse(originCityName)
    ELSE IF ~destinationHasWarehouse THEN NoDestinationWarehouse(destinationCityName)
    ELSE NoWarning

\* mutant: the destination locker is checked before the origin warehouse
MutOfficePostamatWarning(originCityName, destinationCityName, originHasWarehouse, destinationHasLocker) ==
    IF ~destinationHasLocker THEN NoDestinationLocker(destinationCityName)
    ELSE IF ~originHasWarehouse THEN NoOriginWarehouse(originCityName)
    ELSE NoWarning

\* the block if (tariffType === "OFFICE_POSTAMAT") { ... }
OfficePostamatWarning(originCityName, destinationCityName, originHasWarehouse, destinationHasLocker) ==
    IF ~originHasWarehouse /\ ~destinationHasLocker
        THEN NoOriginWarehouseAndDestinationLocker(originCityName, destinationCityName)
    ELSE IF ~originHasWarehouse THEN NoOriginWarehouse(originCityName)
    ELSE IF ~destinationHasLocker THEN NoDestinationLocker(destinationCityName)
    ELSE NoWarning

ShouldShowWarehouseWarning(originCity, destinationCity, tariffType) ==
    IF ShowEarlyReturn(tariffType) THEN NoWarning
    ELSE
    LET originCityName == GetCityNameById(IdOrNull(originCity))
        destinationCityName == GetCityNameById(IdOrNull(destinationCity))
        originHasWarehouse == HasWarehouse(originCityName)
        destinationHasWarehouse == HasWarehouse(destinationCityName)
        destinationHasLocker == HasLocker(destinationCityName)
    IN  IF tariffType = "OFFICE_OFFICE"
            THEN OfficeOfficeWarning(originCityName, destinationCityName,
                                     originHasWarehouse, destinationHasWarehouse)
        ELSE IF tariffType = "OFFICE_DOOR" /\ ~originHasWarehouse
            THEN NoOriginWarehouse(originCityName)
        ELSE IF tariffType = "OFFICE_POSTAMAT"
            THEN OfficePostamatWarning(originCityName, destinationCityName,
                                       originHasWarehouse, destinationHasLocker)
        ELSE IF tariffType = "DOOR_OFFICE" /\ ~destinationHasWarehouse
            THEN NoDestinationWarehouse(destinationCityName)
        ELSE IF tariffType = "DOOR_POSTAMAT" /\ ~destinationHasLocker
            THEN NoDestinationLocker(destinationCityName)
        ELSE NoWarning

\* mutant: the loading flag is not consulted
MutDisableEarlyReturn(originCity, destinationCity, tariffType) ==
    originCity = Null \/ destinationCity = Null \/ tariffType = NullTariff

\* if (!originCity || !destinationCity || !tariffType || loading) return true
DisableEarlyReturn(originCity, destinationCity, tariffType) ==
    originCity = Null \/ destinationCity = Null \/ tariffType = NullTariff \/ loading

\* mutant: OFFICE_DOOR looks at the destination instead of the origin
MutDisableSwitchOfficeDoor(tariffType, originHasWarehouse, destinationHasWarehouse, destinationHasLocker) ==
    CASE tariffType = "OFFICE_OFFICE" -> ~originHasWarehouse \/ ~destinationHasWarehouse
      [] tariffType = "OFFICE_DOOR" -> ~destinationHasWarehouse
      [] tariffType = "DOOR_OFFICE" -> ~destinationHasWarehouse
      [] tariffType = "OFFICE_POSTAMAT" -> ~originHasWarehouse \/ ~destinationHasLocker
      [] tariffType = "DOOR_POSTAMAT" -> ~destinationHasLocker
      [] tariffType = "DOOR_DOOR" -> FALSE
      [] OTHER -> TRUE

\* mutant: the DOOR_DOOR case is missing, so it takes the default branch
MutDisableSwitchDoorDoor(tariffType, originHasWarehouse, destinationHasWarehouse, destinationHasLocker) ==
    CASE tariffType = "OFFICE_OFFICE" -> ~originHasWarehouse \/ ~destinationHasWarehouse
      [] tariffType = "OFFICE_DOOR" -> ~originHasWarehouse
      [] tariffType = "DOOR_OFFICE" -> ~destinationHasWarehouse
      [] tariffType = "OFFICE_POSTAMAT" -> ~originHasWarehouse \/ ~destinationHasLocker
      [] tariffType = "DOOR_POSTAMAT" -> ~destinationHasLocker
      [] OTHER -> TRUE

\* mutant: the negation is dropped in the DOOR_POSTAMAT case
MutDisableSwitchDoorPostamat(tariffType, originHasWarehouse, destinationHasWarehouse, destinationHasLocker) ==
    CASE tariffType = "OFFICE_OFFICE" -> ~originHasWarehouse \/ ~destinationHasWarehouse
      [] tariffType = "OFFICE_DOOR" -> ~originHasWarehouse
      [] tariffType = "DOOR_OFFICE" -> ~destinationHasWarehouse
      [] tariffType = "OFFICE_POSTAMAT" -> ~originHasWarehouse \/ ~destinationHasLocker
      [] tariffType = "DOOR_POSTAMAT" -> destinationHasLocker
      [] tariffType = "DOOR_DOOR" -> FALSE
      [] OTHER -> TRUE

\* switch (tariffType) { ... }
DisableSwitch(tariffType, originHasWarehouse, destinationHasWarehouse, destinationHasLocker) ==
    CASE tariffType = "OFFICE_OFFICE" -> ~originHasWarehouse \/ ~destinationHasWarehouse
      [] tariffType = "OFFICE_DOOR" -> ~originHasWarehouse
      [] tariffType = "DOOR_OFFICE" -> ~destinationHasWarehouse
      [] tariffType = "OFFICE_POSTAMAT" -> ~originHasWarehouse \/ ~destinationHasLocker
      [] tariffType = "DOOR_POSTAMAT" -> ~destinationHasLocker
      [] tariffType = "DOOR_DOOR" -> FALSE
      [] OTHER -> TRUE

ShouldDisableCalculation(originCity, destinationCity, tariffType) ==
    IF DisableEarlyReturn(originCity, destinationCity, tariffType) THEN TRUE
    ELSE
    LET originCityName == GetCityNameById(Some(originCity[1].id))
        destinationCityName == GetCityNameById(Some(destinationCity[1].id))
    IN  DisableSwitch(tariffType, HasWarehouse(originCityName),
                      HasWarehouse(destinationCityName), HasLocker(destinationCityName))

----------------------------------------------------------------------------
(* Calls of the evaluators by the rendering code.  The evaluators are       *)
(* closures of one render: call and returned hold the call made during the *)
(* current render and its value, and every state change of the hook        *)
(* (which makes React render again) discards them.                         *)

TariffArgs == TariffTypes \cup {NullTariff}

CallHasWarehouse ==
    /\ call = NoCall
    /\ \E cityName \in NameArgs :
          /\ call' = Call("hasWarehouse", cityName, Null, Null, NullTariff)
          /\ returned' = HasWarehouse(cityName)
    /\ UNCHANGED <<hookVars, calcVars>>

CallHasLocker ==
    /\ call = NoCall
    /\ \E cityName \in NameArgs :
          /\ call' = Call("hasLocker", cityName, Null, Null, NullTariff)
          /\ returned' = HasLocker(cityName)
    /\ UNCHANGED <<hookVars, calcVars>>

CallShouldShowWarehouseWarning ==
    /\ call = NoCall
    /\ \E originCity \in CityArgs, destinationCity \in CityArgs, tariffType \in TariffArgs :
          /\ call' = Call("shouldShowWarehouseWarning", Null, originCity,
                          destinationCity, tariffType)
          /\ returned' = ShouldShowWarehouseWarning(originCity, destinationCity, tariffType)
    /\ UNCHANGED <<hookVars, calcVars>>

CallShouldDisableCalculation ==
    /\ call = NoCall
    /\ \E originCity \in CityArgs, destinationCity \in CityArgs, tariffType \in TariffArgs :
          /\ call' = Call("shouldDisableCalculation", Null, originCity,
                          destinationCity, tariffType)
          /\ returned' = ShouldDisableCalculation(originCity, destinationCity, tariffType)
    /\ UNCHANGED <<hookVars, calcVars>>

----------------------------------------------------------------------------
(* useRegionBasedTariffCalculator: data *)

RegionCity(shipox_id, name) ==
    [shipox_id |-> shipox_id, names |-> [ru |-> name, en |-> name, uz |-> name]]

\* the region cities offered by the form
RegionTa == RegionCity(1, Ta)
RegionSo == RegionCity(2, So)

\* the data array GET /api/cities answers with
ApiCityList == << City(1, Ta, <<"4">>, <<"6">>), City(2, So, <<"3">>, <<"6">>) >>

\* the same cities, the second one without a latitude
ApiCityListNoLatitude ==
    << City(1, Ta, <<"4">>, <<"6">>), City(2, So, EmptyString, <<"6">>) >>

ApiCityLists == {ApiCityList, ApiCityListNoLatitude}

OriginChoices == {Null, Some(RegionTa)}
DestinationChoices == {Null, Some(RegionSo)}
\* what the weight field may hold: nothing, a positive number, zero, a
\* negative number, text that is no number
WeightChoices == {EmptyString, <<"5">>, <<"0">>, <<"-", "1">>, <<"x">>}

\* the messages of the i18n table used by the calculator
FillAllFields == "fillAllFields"
CorrectWeight == "correctWeight"
CalculationError == "calculationError"

Digits == {"0", "1", "2", "3", "4", "5", "6", "7", "8", "9"}

DigitValue(c) ==
    CASE c = "0" -> 0 [] c = "1" -> 1 [] c = "2" -> 2 [] c = "3" -> 3 [] c = "4" -> 4
      [] c = "5" -> 5 [] c = "6" -> 6 [] c = "7" -> 7 [] c = "8" -> 8 [] c = "9" -> 9

NaN == [nan |-> TRUE, value |-> 0]
Number(v) == [nan |-> FALSE, value |-> v]

\* parseFloat on strings of white space, an optional sign and decimal digits:
\* leading white space is skipped, the longest digit prefix is the value and
\* a string without one gives NaN
ParseFloat(s) ==
    LET leading == {i \in 1..Len(s) : \A j \in 1..i : s[j] = " "}
        start == Cardinality(leading) + 1
        signed == start <= Len(s) /\ s[start] \in {"-", "+"}
        first == IF signed THEN start + 1 ELSE start
        run == {i \in first..Len(s) : \A j \in first..i : s[j] \in Digits}
        last == first + Cardinality(run) - 1
        Value[i \in (first - 1)..last] ==
            IF i < first THEN 0 ELSE 10 * Value[i - 1] + DigitValue(s[i])
    IN  IF run = {} THEN NaN
        ELSE IF signed /\ s[start] = "-" THEN Number(0 - Value[last])
        ELSE Number(Value[last])

----------------------------------------------------------------------------
(* useRegionBasedTariffCalculator: loadCities *)

\* the mount effect runs loadCities up to its await
LoadCitiesStart ==
    /\ citiesPc = "mount"
    /\ citiesLoading' = TRUE
    /\ citiesPc' = "awaitCities"
    /\ UNCHANGED <<form, result, calcLoading, calcError, apiCities, inflight>>
    /\ UNCHANGED <<hookVars, callVars>>

\* await fetch("/api/cities") settles: rejected, non-OK, or OK
CitiesFetchSettled ==
    /\ citiesPc = "awaitCities"
    /\ \E outcome \in {"rejected", "notok", "ok"} :
          IF outcome = "ok"
          THEN citiesPc' = "citiesJson" /\ UNCHANGED citiesLoading
          ELSE citiesPc' = "done" /\ citiesLoading' = FALSE
    /\ UNCHANGED <<form, result, calcLoading, calcError, apiCities, inflight>>
    /\ UNCHANGED <<hookVars, callVars>>

\* await response.json() settles; setApiCities(data.data || [])
CitiesJsonSettled ==
    /\ citiesPc = "citiesJson"
    /\ \E shape \in {"malformed", "nodata", "flat"}, list \in ApiCityLists :
          apiCities' = IF shape = "flat" THEN list
                       ELSE IF shape = "nodata" THEN <<>>
                       ELSE apiCities
    /\ citiesLoading' = FALSE
    /\ citiesPc' = "done"
    /\ UNCHANGED <<form, result, calcLoading, calcError, inflight>>
    /\ UNCHANGED <<hookVars, callVars>>

----------------------------------------------------------------------------
(* useRegionBasedTariffCalculator: derived values and predicates *)

\* apiCities.find((city) => city.id === regionCity.shipox_id) || null
FindApiCityByShipoxId(regionCity) ==
    LET hits == {i \in 1..Len(apiCities) : apiCities[i].id = regionCity.shipox_id}
        first == CHOOSE i \in hits : \A j \in hits : i <= j
    IN  IF hits = {} THEN Null ELSE Some(apiCities[first])

convertedOriginCity ==
    IF form.originCity # Null THEN FindApiCityByShipoxId(form.originCity[1]) ELSE Null

convertedDestinationCity ==
    IF form.destinationCity # Null THEN FindApiCityByShipoxId(form.destinationCity[1])
    ELSE Null

\* mutant: the tariff type is not validated
MutIsFormValid ==
    LET weight == ParseFloat(form.weight)
    IN  /\ form.originCity # Null
        /\ form.destinationCity # Null
        /\ form.weight # EmptyString
        /\ ~weight.nan
        /\ weight.value > 0

isFormValid ==
    LET weight == ParseFloat(form.weight)
    IN  /\ form.originCity # Null
        /\ form.destinationCity # Null
        /\ form.tariffType # NullTariff
        /\ form.weight # EmptyString
        /\ ~weight.nan
        /\ weight.value > 0

\* JavaScript truthiness of a coordinate
HasCoordinate(coordinate) == coordinate # EmptyString

canCalculate ==
    /\ isFormValid
    /\ convertedOriginCity # Null
    /\ convertedDestinationCity # Null
    /\ HasCoordinate(convertedOriginCity[1].center_latitude)
    /\ HasCoordinate(convertedOriginCity[1].center_longitude)
    /\ HasCoordinate(convertedDestinationCity[1].center_latitude)
    /\ HasCoordinate(convertedDestinationCity[1].center_longitude)

\* String.prototype.startsWith / endsWith on the tariff type names
StartsWithOffice(tariffType) ==
    tariffType \in {"OFFICE_OFFICE", "OFFICE_DOOR", "OFFICE_POSTAMAT"}
EndsWithOffice(tariffType) == tariffType \in {"OFFICE_OFFICE", "DOOR_OFFICE"}
EndsWithPostamat(tariffType) == tariffType \in {"OFFICE_POSTAMAT", "DOOR_POSTAMAT"}

isCalculationDisabled ==
    IF \/ form.originCity = Null
       \/ form.destinationCity = Null
       \/ form.tariffType = NullTariff
       \/ convertedOriginCity = Null
       \/ convertedDestinationCity = Null
    THEN FALSE
    ELSE
    LET needsOriginOffice == StartsWithOffice(form.tariffType)
        needsDestinationOffice ==
            EndsWithOffice(form.tariffType) \/ EndsWithPostamat(form.tariffType)
        hasOriginServices ==
            \/ HasWarehouse(Some(convertedOriginCity[1].name))
            \/ HasLocker(Some(convertedOriginCity[1].name))
        hasDestinationServices ==
            \/ HasWarehouse(Some(convertedDestinationCity[1].name))
            \/ HasLocker(Some(convertedDestinationCity[1].name))
    IN  IF ~needsOriginOffice /\ ~needsDestinationOffice THEN FALSE
        ELSE IF needsOriginOffice /\ ~hasOriginServices THEN TRUE
        ELSE IF needsDestinationOffice /\ ~hasDestinationServices THEN TRUE
        ELSE FALSE

\* String.prototype.includes("OFFICE") on the tariff type names
IncludesOffice(tariffType) ==
    tariffType \in {"OFFICE_OFFICE", "OFFICE_DOOR", "DOOR_OFFICE", "OFFICE_POSTAMAT"}

\* the language of useI18n
Language == "ru"

\* getDisplayName: regionCity.names[language] || regionCity.names.en
GetDisplayName(regionCity) ==
    IF regionCity.names[Language] # EmptyString THEN regionCity.names[Language]
    ELSE regionCity.names.en

\* the warning object of the calculator
CalcWarning(show, type, message) == [show |-> show, type |-> type, message |-> message]

NoCalcWarning == CalcWarning(FALSE, "info", <<>>)

\* const warehouseWarning = createWarehouseWarning()
warehouseWarning ==
    IF \/ form.originCity = Null
       \/ form.destinationCity = Null
       \/ form.tariffType = NullTariff
       \/ convertedOriginCity = Null
       \/ convertedDestinationCity = Null
    THEN NoCalcWarning
    ELSE IF ~IncludesOffice(form.tariffType) THEN NoCalcWarning
    ELSE
    LET hasOriginServices ==
            \/ HasWarehouse(Some(convertedOriginCity[1].name))
            \/ HasLocker(Some(convertedOriginCity[1].name))
        hasDestinationServices ==
            \/ HasWarehouse(Some(convertedDestinationCity[1].name))
            \/ HasLocker(Some(convertedDestinationCity[1].name))
        needsOriginOffice == StartsWithOffice(form.tariffType)
        needsDestinationOffice == EndsWithOffice(form.tariffType)
    IN  IF /\ needsOriginOffice /\ needsDestinationOffice
           /\ ~hasOriginServices /\ ~hasDestinationServices
        THEN CalcWarning(TRUE, "warning",
                         <<"noWarehouses", GetDisplayName(form.originCity[1]),
                           GetDisplayName(form.destinationCity[1])>>)
        ELSE IF needsOriginOffice /\ ~hasOriginServices
        THEN CalcWarning(TRUE, "warning",
                         <<"noOriginWarehouse", GetDisplayName(form.originCity[1])>>)
        ELSE IF needsDestinationOffice /\ ~hasDestinationServices
        THEN CalcWarning(TRUE, "warning",
                         <<"noDestinationWarehouse", GetDisplayName(form.destinationCity[1])>>)
        ELSE NoCalcWarning

----------------------------------------------------------------------------
(* useRegionBasedTariffCalculator: the handlers *)

\* updateForm(updates) with one key in updates, the tariff type drawn from tariffs
UpdateFormWith(tariffs) ==
    /\ \/ \E v \in OriginChoices : form' = [form EXCEPT !.originCity = v]
       \/ \E v \in DestinationChoices : form' = [form EXCEPT !.destinationCity = v]
       \/ \E v \in tariffs : form' = [form EXCEPT !.tariffType = v]
       \/ \E v \in WeightChoices : form' = [form EXCEPT !.weight = v]
    /\ calcError' = Null
    /\ UNCHANGED <<result, calcLoading, apiCities, citiesLoading, citiesPc, inflight>>
    /\ UNCHANGED <<hookVars, callVars>>

\* updateForm with any tariff type of the select box, or none
UpdateForm == UpdateFormWith(TariffArgs)

\* the tariff types offered where requests are followed through their
\* answers: none, and one that needs a warehouse at both ends
CalcTariffs == {NullTariff, "OFFICE_OFFICE"}

UpdateFormCalc == UpdateFormWith(CalcTariffs)

ResetForm ==
    /\ form' = [originCity |-> Null, destinationCity |-> Null,
                tariffType |-> NullTariff, weight |-> EmptyString]
    /\ result' = Null
    /\ calcError' = Null
    /\ UNCHANGED <<calcLoading, apiCities, citiesLoading, citiesPc, inflight>>
    /\ UNCHANGED <<hookVars, callVars>>

\* the body of POST /api/calculate-tariff
RequestBody(originApiCity, destinationApiCity, weight, tariffType) ==
    [from_latitude |-> originApiCity.center_latitude,
     from_longitude |-> originApiCity.center_longitude,
     to_latitude |-> destinationApiCity.center_latitude,
     to_longitude |-> destinationApiCity.center_longitude,
     weight |-> weight,
     tariff_type |-> tariffType]

\* a request in flight together with the way its await will settle: ok, the
\* endpoint answers OK with a JSON body; otherwise the fetch is rejected, or
\* answered non-OK, or its body cannot be parsed
Pending(body, ok) == [body |-> body, ok |-> ok]

\* calculateTariff up to its await: the validation returns, the TypeError
\* of reading a coordinate of a null city (caught inside the try block), or
\* the POST
CalculateTariff ==
    /\ IF ~isFormValid
       THEN /\ calcError' = Some(FillAllFields)
            /\ UNCHANGED <<calcLoading, inflight>>
       ELSE IF ParseFloat(form.weight).nan \/ ParseFloat(form.weight).value <= 0
       THEN /\ calcError' = Some(CorrectWeight)
            /\ UNCHANGED <<calcLoading, inflight>>
       ELSE IF convertedOriginCity = Null \/ convertedDestinationCity = Null
       THEN /\ calcError' = Some(CalculationError)
            /\ calcLoading' = FALSE
            /\ UNCHANGED inflight
       ELSE /\ Len(inflight) < MaxInFlight
            /\ calcLoading' = TRUE
            /\ calcError' = Null
            /\ \E ok \in BOOLEAN :
                  inflight' = Append(inflight,
                                     Pending(RequestBody(convertedOriginCity[1],
                                                         convertedDestinationCity[1],
                                                         ParseFloat(form.weight).value,
                                                         form.tariffType), ok))
    /\ UNCHANGED <<form, result, apiCities, citiesLoading, citiesPc>>
    /\ UNCHANGED <<hookVars, callVars>>

\* the tariff result object the endpoint computes for a request
TariffResult(body) == [request |-> body]

RemoveAt(seq, i) == SubSeq(seq, 1, i - 1) \o SubSeq(seq, i + 1, Len(seq))

\* mutant: the catch block does not report the error
MutCalculateSettled ==
    /\ \E i \in 1..Len(inflight) :
          /\ inflight' = RemoveAt(inflight, i)
          /\ IF inflight[i].ok
             THEN result' = Some(TariffResult(inflight[i].body)) /\ UNCHANGED calcError
             ELSE UNCHANGED <<calcError, result>>
    /\ calcLoading' = FALSE
    /\ UNCHANGED <<form, apiCities, citiesLoading, citiesPc>>
    /\ UNCHANGED <<hookVars, callVars>>

\* the await of one calculateTariff call settles (answers may overtake one
\* another): setResult(data), or the catch block
CalculateSettled ==
    /\ \E i \in 1..Len(inflight) :
          /\ inflight' = RemoveAt(inflight, i)
          /\ IF inflight[i].ok
             THEN result' = Some(TariffResult(inflight[i].body)) /\ UNCHANGED calcError
             ELSE calcError' = Some(CalculationError) /\ UNCHANGED result
    /\ calcLoading' = FALSE
    /\ UNCHANGED <<form, apiCities, citiesLoading, citiesPc>>
    /\ UNCHANGED <<hookVars, callVars>>

----------------------------------------------------------------------------
(* The other variants of the hook (src/unnamed/part_001): matching *)

\* the letters of the names used here; the only white space used is " "
Letters == {"a", "c", "i", "k", "n", "o", "s", "t", "u", "y", "C", "N", "S", "T"}

\* the characters of s at the given positions, in order
KeepWhere(s, positions) ==
    LET Kept[i \in 0..Len(s)] ==
            IF i = 0 THEN <<>>
            ELSE IF i \in positions THEN Append(Kept[i - 1], s[i]) ELSE Kept[i - 1]
    IN  Kept[Len(s)]

\* .replace(/[^a-zA-Z<cyrillic letters>\s]/g, "")
RemoveSpecialCharacters(s) ==
    KeepWhere(s, {i \in 1..Len(s) : s[i] \in Letters \cup {" "}})

\* .replace(/\s+/g, " ")
CollapseSpaces(s) ==
    KeepWhere(s, {i \in 1..Len(s) : ~(s[i] = " " /\ i > 1 /\ s[i - 1] = " ")})

StartsWith(s, prefix) ==
    Len(prefix) <= Len(s) /\ SubSeq(s, 1, Len(prefix)) = prefix

\* the alternatives of the suffix pattern that names in Latin script can
\* contain, in the order of the pattern (the others are written in Cyrillic,
\* as are all the adjective endings of the replace call that follows)
CitySuffixes ==
    << <<"c", "i", "t", "y">>,
       <<"s", "h", "a", "h", "r", "i">>,
       <<"t", "u", "m", "a", "n", "i">>,
       <<"v", "i", "l", "o", "y", "a", "t", "i">>,
       <<"o", "b", "l", "a", "s", "t">>,
       <<"r", "e", "g", "i", "o", "n">>,
       <<"d", "i", "s", "t", "r", "i", "c", "t">> >>

\* .replace(/(city|shahri|...)/gi, ""): scanning from the left, every match
\* of the first alternative that fits is dropped
RECURSIVE RemoveCitySuffixes(_)
RemoveCitySuffixes(s) ==
    LET fits == {k \in 1..Len(CitySuffixes) : StartsWith(s, CitySuffixes[k])}
        first == CHOOSE k \in fits : \A j \in fits : k <= j
    IN  IF s = <<>> THEN <<>>
        ELSE IF fits # {}
        THEN RemoveCitySuffixes(SubSeq(s, Len(CitySuffixes[first]) + 1, Len(s)))
        ELSE <<s[1]>> \o RemoveCitySuffixes(Tail(s))

\* mutant: the name is not lower-cased
MutNormalizeCityName(name) ==
    Trim(RemoveCitySuffixes(CollapseSpaces(RemoveSpecialCharacters(Trim(name)))))

\* normalizeCityName(name): trim, lower-case, drop what is no letter or white
\* space, collapse white space, drop the suffix words and adjective endings, trim
NormalizeCityName(name) ==
    Trim(RemoveCitySuffixes(CollapseSpaces(RemoveSpecialCharacters(ToLowerCase(Trim(name))))))

\* String.prototype.includes
Includes(s, part) ==
    \E i \in 1..(Len(s) - Len(part) + 1) : SubSeq(s, i, i + Len(part) - 1) = part

\* s.split(" ").filter((w) => w.length > 2), as a set
Words(s) ==
    {SubSeq(s, i, j) : <<i, j>> \in
        {ij \in (1..Len(s)) \X (1..Len(s)) :
            /\ ij[2] - ij[1] + 1 > 2
            /\ \A k \in ij[1]..ij[2] : s[k] # " "
            /\ (ij[1] = 1 \/ s[ij[1] - 1] = " ")
            /\ (ij[2] = Len(s) \/ s[ij[2] + 1] = " ")}}

\* the core word matching of the normalised hasWarehouse
WordMatch(normalizedSearchCity, normalizedWarehouseCity) ==
    \E searchWord \in Words(normalizedSearchCity) :
        \E warehouseWord \in Words(normalizedWarehouseCity) :
            \/ searchWord = warehouseWord
            \/ /\ Len(searchWord) >= 4 /\ Len(warehouseWord) >= 4
               /\ Includes(searchWord, warehouseWord) \/ Includes(warehouseWord, searchWord)

\* step 1 of the normalised variant: w.city.toLowerCase() === cityName.toLowerCase()
ExactMatch(list, cityName) ==
    \E i \in 1..Len(list) : ToLowerCase(list[i].city) = ToLowerCase(cityName)

\* step 2 of the normalised hasWarehouse: the loop over the warehouses
NormalizedWarehouseMatch(list, cityName) ==
    \E i \in 1..Len(list) :
        LET normalizedWarehouseCity == NormalizeCityName(list[i].city)
            normalizedSearchCity == NormalizeCityName(cityName)
        IN  \/ normalizedWarehouseCity = normalizedSearchCity
            \/ Includes(normalizedWarehouseCity, normalizedSearchCity)
            \/ Includes(normalizedSearchCity, normalizedWarehouseCity)
            \/ WordMatch(normalizedSearchCity, normalizedWarehouseCity)

\* step 2 of the normalised hasLocker: the loop over the lockers
NormalizedLockerMatch(list, cityName) ==
    \E i \in 1..Len(list) :
        LET normalizedLockerCity == NormalizeCityName(list[i].city)
            normalizedSearchCity == NormalizeCityName(cityName)
        IN  \/ normalizedLockerCity = normalizedSearchCity
            \/ Includes(normalizedLockerCity, normalizedSearchCity)
            \/ Includes(normalizedSearchCity, normalizedLockerCity)

\* hasWarehouse of the normalised variant
HasWarehouseNormalized(cityName) ==
    IF ~Truthy(cityName) \/ Len(warehouses) = 0 THEN FALSE
    ELSE \/ ExactMatch(warehouses, cityName[1])
         \/ NormalizedWarehouseMatch(warehouses, cityName[1])

\* hasLocker of the normalised variant
HasLockerNormalized(cityName) ==
    IF ~Truthy(cityName) \/ Len(lockers) = 0 THEN FALSE
    ELSE \/ ExactMatch(lockers, cityName[1])
         \/ NormalizedLockerMatch(lockers, cityName[1])

\* entry.city.trim().toLowerCase() === cityName.trim().toLowerCase() for some entry
SomeCleanCityEquals(list, cityName) ==
    \E i \in 1..Len(list) : ToLowerCase(Trim(list[i].city)) = ToLowerCase(Trim(cityName))

\* hasWarehouse of the trim + lower-case variant
HasWarehouseTrimLower(cityName) ==
    IF ~Truthy(cityName) \/ Len(warehouses) = 0 THEN FALSE
    ELSE SomeCleanCityEquals(warehouses, cityName[1])

\* hasLocker of the trim + lower-case variant
HasLockerTrimLower(cityName) ==
    IF ~Truthy(cityName) \/ Len(lockers) = 0 THEN FALSE
    ELSE SomeCleanCityEquals(lockers, cityName[1])

\* the names compared by the variants
LeadLowerTa == <<" ", "t", "a">>
TaCity == <<"T", "a", " ", "c", "i", "t", "y">>
TaDash == <<"T", "a", "-">>
CityOnly == <<"C", "i", "t", "y">>
Space == <<" ">>
NukSo == <<"N", "u", "k", " ", "S", "o">>
TaNuk == <<"T", "a", " ", "N", "u", "k">>
NukaSo == <<"N", "u", "k", "a", " ", "S", "o">>
TaNukas == <<"T", "a", " ", "N", "u", "k", "a", "s">>

\* the city fields of the fetched service points
VariantCities == {Ta, TrailTa, So, TaCity, CityOnly, NukSo, NukaSo}

\* the names asked for
VariantNames ==
    {Null} \cup {Some(n) : n \in {Ta, LowerTa, LeadTa, LeadLowerTa, TrailTa, So, EmptyString,
                                  TaCity, TaDash, CityOnly, Space, TaNuk, TaNukas}}

RECURSIVE VariantListsUpTo(_)
VariantListsUpTo(n) ==
    IF n = 0 THEN {<<>>}
    ELSE LET shorter == VariantListsUpTo(n - 1)
         IN  shorter \cup {Append(l, ServicePoint(c)) :
                              l \in {s \in shorter : Len(s) = n - 1}, c \in VariantCities}

\* what the three variants of an evaluator return for the same list and name
VariantResults(strict, trimLower, normalized) ==
    [strict |-> strict, trimLower |-> trimLower, normalized |-> normalized]

\* hasWarehouse(cityName) asked of the three variants over the same list
CallVariantsHasWarehouse ==
    /\ call = NoCall
    /\ \E cityName \in VariantNames :
          /\ call' = Call("hasWarehouse", cityName, Null, Null, NullTariff)
          /\ returned' = VariantResults(HasWarehouse(cityName),
                                        HasWarehouseTrimLower(cityName),
                                        HasWarehouseNormalized(cityName))
    /\ UNCHANGED <<hookVars, calcVars>>

\* hasLocker(cityName) asked of the three variants over the same list
CallVariantsHasLocker ==
    /\ call = NoCall
    /\ \E cityName \in VariantNames :
          /\ call' = Call("hasLocker", cityName, Null, Null, NullTariff)
          /\ returned' = VariantResults(HasLocker(cityName),
                                        HasLockerTrimLower(cityName),
                                        HasLockerNormalized(cityName))
    /\ UNCHANGED <<hookVars, calcVars>>

----------------------------------------------------------------------------
(* Initial states *)

HookInit ==
    /\ warehouses = <<>>
    /\ lockers = <<>>
    /\ loading = FALSE
    /\ error = Null
    /\ pc = "mount"
    /\ warehousesResponse = Null
    /\ lockersResponse = Null
    /\ sent = [warehouses |-> 0, lockers |-> 0]

CallInit ==
    /\ call = NoCall
    /\ returned = FALSE

CalcInit ==
    /\ form = [originCity |-> Null, destinationCity |-> Null,
               tariffType |-> NullTariff, weight |-> EmptyString]
    /\ result = Null
    /\ calcLoading = FALSE
    /\ calcError = Null
    /\ apiCities = <<>>
    /\ citiesLoading = FALSE
    /\ citiesPc = "mount"
    /\ inflight = <<>>

Init ==
    /\ HookInit
    /\ CallInit
    /\ CalcInit
    /\ net \in [warehouses : Answers, lockers : Answers]

Next ==
    \/ FetchDataStart
    \/ WarehousesFetchSettled
    \/ LockersFetchSettled
    \/ WarehousesJsonSettled
    \/ LockersJsonSettled
    \/ CallHasWarehouse
    \/ CallHasLocker
    \/ CallShouldShowWarehouseWarning
    \/ CallShouldDisableCalculation

Spec == Init /\ [][Next]_vars

\* the answers of the two endpoints considered with the calculator
CalcAnswers ==
    {Answer("notok", "none", <<>>),
     Answer("ok", "list", <<ServicePoint(Ta)>>),
     Answer("ok", "list", <<ServicePoint(So)>>)}

\* the calculator's form over every combination of these answers
FormSpecInit ==
    /\ HookInit
    /\ CallInit
    /\ CalcInit
    /\ net \in [warehouses : CalcAnswers, lockers : CalcAnswers]

\* where requests are followed through their answers: a warehouse in the
\* origin city, and a locker in the destination city or no locker list
CalcSpecInit ==
    /\ HookInit
    /\ CallInit
    /\ CalcInit
    /\ net \in [warehouses : {Answer("ok", "list", <<ServicePoint(Ta)>>)},
                 lockers : {Answer("notok", "none", <<>>),
                            Answer("ok", "list", <<ServicePoint(So)>>)}]

CalcNext ==
    \/ FetchDataStart
    \/ WarehousesFetchSettled
    \/ LockersFetchSettled
    \/ WarehousesJsonSettled
    \/ LockersJsonSettled
    \/ LoadCitiesStart
    \/ CitiesFetchSettled
    \/ CitiesJsonSettled
    \/ UpdateFormCalc
    \/ ResetForm
    \/ CalculateTariff
    \/ CalculateSettled

\* the calculator with its requests to /api/calculate-tariff
CalcSpec == CalcSpecInit /\ [][CalcNext]_vars

FormNext ==
    \/ FetchDataStart
    \/ WarehousesFetchSettled
    \/ LockersFetchSettled
    \/ WarehousesJsonSettled
    \/ LockersJsonSettled
    \/ LoadCitiesStart
    \/ CitiesFetchSettled
    \/ CitiesJsonSettled
    \/ UpdateForm
    \/ ResetForm

\* the form of the calculator and the values derived from it, with every
\* tariff type and no calculation
FormSpec == FormSpecInit /\ [][FormNext]_vars

LoadNext ==
    \/ FetchDataStart
    \/ WarehousesFetchSettled
    \/ LockersFetchSettled
    \/ WarehousesJsonSettled
    \/ LockersJsonSettled
    \/ LoadCitiesStart
    \/ CitiesFetchSettled
    \/ CitiesJsonSettled

\* the mount effects run, and every request that was issued and every body
\* that is being read eventually settles
LoadFairness ==
    /\ WF_vars(FetchDataStart)
    /\ WF_vars(WarehousesFetchSettled)
    /\ WF_vars(LockersFetchSettled)
    /\ WF_vars(WarehousesJsonSettled)
    /\ WF_vars(LockersJsonSettled)
    /\ WF_vars(LoadCitiesStart)
    /\ WF_vars(CitiesFetchSettled)
    /\ WF_vars(CitiesJsonSettled)

\* the two loads that start at mount, with requests that settle
LoadSpec == Init /\ [][LoadNext]_vars /\ LoadFairness

\* the state after a load that fetched the same service points as
\* warehouses and as lockers
VariantsInit ==
    /\ \E list \in VariantListsUpTo(MaxList) :
          /\ warehouses = list
          /\ lockers = list
          /\ net = [warehouses |-> Answer("ok", "list", list),
                    lockers |-> Answer("ok", "list", list)]
    /\ loading = FALSE
    /\ error = Null
    /\ pc = "done"
    /\ warehousesResponse = Some([ok |-> TRUE])
    /\ lockersResponse = Some([ok |-> TRUE])
    /\ sent = [warehouses |-> 1, lockers |-> 1]
    /\ CallInit
    /\ CalcInit

VariantsNext ==
    \/ CallVariantsHasWarehouse
    \/ CallVariantsHasLocker

\* the matching of the three variants of the hook compared on the same inputs
VariantsSpec == VariantsInit /\ [][VariantsNext]_vars


----------------------------------------------------------------------------
(* Properties of useWarehouseCheck *)

\* the requirement table of the tariff types
NeedsOriginWarehouse(tariffType) ==
    tariffType \in {"OFFICE_OFFICE", "OFFICE_DOOR", "OFFICE_POSTAMAT"}
NeedsDestinationWarehouse(tariffType) ==
    tariffType \in {"OFFICE_OFFICE", "DOOR_OFFICE"}
NeedsDestinationLocker(tariffType) ==
    tariffType \in {"OFFICE_POSTAMAT", "DOOR_POSTAMAT"}

\* the city name the hook resolves for a city argument
NameOf(city) == GetCityNameById(IdOrNull(city))

OriginUnmet == NeedsOriginWarehouse(call.tariffType) /\ ~HasWarehouse(NameOf(call.originCity))
DestinationWarehouseUnmet ==
    NeedsDestinationWarehouse(call.tariffType) /\ ~HasWarehouse(NameOf(call.destinationCity))
DestinationLockerUnmet ==
    NeedsDestinationLocker(call.tariffType) /\ ~HasLocker(NameOf(call.destinationCity))

DisableCalled == call.fn = "shouldDisableCalculation"
ShowCalled == call.fn = "shouldShowWarehouseWarning"
BothSelected == call.originCity # Null /\ call.destinationCity # Null

\* C1: with origin, destination and tariff type given and loading false,
\* shouldDisableCalculation returns true exactly when a requirement of the
\* tariff table is unmet for the resolved city names.
C1_DisableFollowsTable ==
    (DisableCalled /\ BothSelected /\ call.tariffType # NullTariff /\ ~loading)
        => (returned <=> (OriginUnmet \/ DestinationWarehouseUnmet \/ DestinationLockerUnmet))

\* C1 witness: OFFICE_DOOR is allowed although the destination has no warehouse
C1_Witness ==
    /\ DisableCalled /\ pc = "done"
    /\ call.tariffType = "OFFICE_DOOR"
    /\ HasWarehouse(NameOf(call.originCity))
    /\ ~HasWarehouse(NameOf(call.destinationCity))
    /\ returned = FALSE

\* C2 (as claimed): when the warehouses fetch fails (rejected or non-OK) and
\* the lockers endpoint would answer OK with a list, then after the load the
\* lockers list is the fetched one and no city has a warehouse.
C2_PartialLoadKeepsLockers ==
    (/\ pc = "done"
     /\ net.warehouses.outcome \in {"rejected", "notok"}
     /\ net.lockers.outcome = "ok" /\ net.lockers.shape = "list")
        => /\ lockers = net.lockers.items
           /\ \A cityName \in NameArgs : ~HasWarehouse(cityName)

\* C3: shouldDisableCalculation returns true whenever origin, destination or
\* tariff type is null or the load is in progress, for every tariff type.
C3_DisableWhenIncomplete ==
    (DisableCalled /\ (~BothSelected \/ call.tariffType = NullTariff \/ loading))
        => returned = TRUE

\* C3 witness: DOOR_DOOR with both cities selected is blocked while loading
C3_Witness ==
    /\ DisableCalled /\ BothSelected /\ loading
    /\ call.tariffType = "DOOR_DOOR"
    /\ returned = TRUE

\* C4: with both cities selected and the load finished, DOOR_DOOR is never
\* blocked, whatever the lists hold.
C4_DoorDoorNeverBlocks ==
    (DisableCalled /\ BothSelected /\ pc = "done" /\ call.tariffType = "DOOR_DOOR")
        => returned = FALSE

\* C4 witness: DOOR_DOOR evaluated after a failed load that left both lists empty
C4_Witness ==
    /\ DisableCalled /\ BothSelected /\ pc = "done" /\ error # Null
    /\ call.tariffType = "DOOR_DOOR"
    /\ warehouses = <<>> /\ lockers = <<>>
    /\ returned = FALSE

\* two names that differ only in letter case or surrounding white space
SameUpToCaseAndSpace(a, b) == Trim(ToLowerCase(a)) = Trim(ToLowerCase(b))

\* C6 (as claimed): for a city name that is the city of a list entry,
\* hasWarehouse / hasLocker return true for every variant of the name that
\* differs only in letter case or leading/trailing white space.
C6_MatchIgnoresCaseAndSpace ==
    /\ (/\ call.fn = "hasWarehouse" /\ call.cityName # Null
        /\ \E i \in 1..Len(warehouses) :
              SameUpToCaseAndSpace(warehouses[i].city, call.cityName[1]))
          => returned = TRUE
    /\ (/\ call.fn = "hasLocker" /\ call.cityName # Null
        /\ \E i \in 1..Len(lockers) :
              SameUpToCaseAndSpace(lockers[i].city, call.cityName[1]))
          => returned = TRUE

\* C7: hasWarehouse and hasLocker return false for a null or empty city name
\* and for every name when their list is empty.
C7_FalseOnEmptyInput ==
    /\ (call.fn = "hasWarehouse" /\ (~Truthy(call.cityName) \/ warehouses = <<>>))
          => returned = FALSE
    /\ (call.fn = "hasLocker" /\ (~Truthy(call.cityName) \/ lockers = <<>>))
          => returned = FALSE

\* C7 witness: a proper name asked of an empty list after the load, and a
\* null name asked of a non-empty list
C7_Witness ==
    \/ /\ call.fn = "hasLocker" /\ call.cityName = Some(Ta)
       /\ pc = "done" /\ lockers = <<>> /\ warehouses # <<>>
       /\ returned = FALSE
    \/ /\ call.fn = "hasWarehouse" /\ call.cityName = Null
       /\ warehouses # <<>>
       /\ returned = FALSE

\* C8: shouldShowWarehouseWarning returns show=false with an empty message
\* when the tariff type is null or the load is in progress, and show=false
\* for DOOR_DOOR in every state.
C8_NoWarningWhenNotApplicable ==
    /\ (ShowCalled /\ (call.tariffType = NullTariff \/ loading))
          => returned = Warning(FALSE, <<>>)
    /\ (ShowCalled /\ call.tariffType = "DOOR_DOOR") => returned.show = FALSE

\* C8 witness: OFFICE_OFFICE between unserved cities asked while loading
C8_Witness ==
    /\ ShowCalled /\ loading
    /\ call.tariffType = "OFFICE_OFFICE"
    /\ BothSelected
    /\ returned = Warning(FALSE, <<>>)

\* C9: for OFFICE_OFFICE after the load, no warehouse at either end gives the
\* combined noWarehouses message; a warehouse missing at exactly one end
\* gives that end's message.
C9_OfficeOfficeMessages ==
    (ShowCalled /\ call.tariffType = "OFFICE_OFFICE" /\ pc = "done")
        => LET originHas == HasWarehouse(NameOf(call.originCity))
               destinationHas == HasWarehouse(NameOf(call.destinationCity))
           IN  /\ (~originHas /\ ~destinationHas)
                     => returned = Warning(TRUE, <<"noWarehouses">>)
               /\ (~originHas /\ destinationHas)
                     => returned = Warning(TRUE, <<"noOriginWarehouse",
                                                   OrEmpty(NameOf(call.originCity))>>)
               /\ (originHas /\ ~destinationHas)
                     => returned = Warning(TRUE, <<"noDestinationWarehouse",
                                                   OrEmpty(NameOf(call.destinationCity))>>)

\* C9 witness: both cities listed, warehouses loaded, neither city among them
C9_Witness ==
    /\ ShowCalled /\ call.tariffType = "OFFICE_OFFICE" /\ pc = "done"
    /\ warehouses # <<>>
    /\ Truthy(NameOf(call.originCity)) /\ Truthy(NameOf(call.destinationCity))
    /\ returned = Warning(TRUE, <<"noWarehouses">>)

DestinationMessages == {"noDestinationWarehouse", "noDestinationLocker"}

\* C10 (as claimed): for every tariff type other than OFFICE_OFFICE, an unmet
\* origin requirement always gives the missing-origin-warehouse message, also
\* when the destination requirement is unmet too, and a destination message
\* appears only when the origin requirement is met or absent.
C10_OriginBeforeDestination ==
    (ShowCalled /\ call.tariffType \in TariffTypes \ {"OFFICE_OFFICE"} /\ ~loading)
        => /\ OriginUnmet
                => returned = Warning(TRUE, <<"noOriginWarehouse",
                                              OrEmpty(NameOf(call.originCity))>>)
           /\ (returned.show /\ returned.message[1] \in DestinationMessages)
                => ~OriginUnmet

\* C10 (amended): as claimed, except that OFFICE_POSTAMAT with the origin
\* warehouse and the destination locker both missing gives the combined
\* noOriginWarehouseAndDestinationLocker message.
C10_OriginBeforeDestinationAmended ==
    (ShowCalled /\ call.tariffType \in TariffTypes \ {"OFFICE_OFFICE"} /\ ~loading)
        => /\ (OriginUnmet /\ ~DestinationLockerUnmet)
                => returned = Warning(TRUE, <<"noOriginWarehouse",
                                              OrEmpty(NameOf(call.originCity))>>)
           /\ (OriginUnmet /\ DestinationLockerUnmet)
                => returned = Warning(TRUE, <<"noOriginWarehouseAndDestinationLocker",
                                              OrEmpty(NameOf(call.originCity)),
                                              OrEmpty(NameOf(call.destinationCity))>>)
           /\ (returned.show /\ returned.message[1] \in DestinationMessages)
                => ~OriginUnmet

\* C10 witness: OFFICE_POSTAMAT after the load with both requirements unmet
C10_Witness ==
    /\ ShowCalled /\ call.tariffType = "OFFICE_POSTAMAT" /\ pc = "done"
    /\ OriginUnmet /\ DestinationLockerUnmet
    /\ returned.message[1] = "noOriginWarehouseAndDestinationLocker"


----------------------------------------------------------------------------
(* Properties of useRegionBasedTariffCalculator *)

\* a step that sends POST /api/calculate-tariff
PostSent == Len(inflight') > Len(inflight)

\* C5 (as claimed): calculateTariff never sends the POST in a state where
\* isCalculationDisabled() is true.  Stated for the steps taken after the
\* index load has finished, when the warehouse and locker lists are final.
C5_NoPostWhileDisabled ==
    [][(PostSent /\ pc = "done") => ~isCalculationDisabled]_vars


----------------------------------------------------------------------------
(* Properties of the load of useWarehouseCheck *)

\* the request to an endpoint was sent and failed: rejected or a non-OK status
RequestFailed(endpoint) ==
    sent[endpoint] > 0 /\ net[endpoint].outcome \in {"rejected", "notok"}

\* the request to an endpoint was sent and answered OK with a parsable body
RequestSucceeded(endpoint) ==
    sent[endpoint] > 0 /\ net[endpoint].outcome = "ok" /\ net[endpoint].shape # "malformed"

\* C11 (as claimed): after a load in which the warehouses or the lockers
\* request was rejected or answered non-OK, error is non-null; after a load
\* in which both requests succeeded, error is null.
C11_ErrorRecordsEveryFailure ==
    pc = "done"
        => /\ (RequestFailed("warehouses") \/ RequestFailed("lockers")) => error # Null
           /\ (RequestSucceeded("warehouses") /\ RequestSucceeded("lockers")) => error = Null

\* C12 (as claimed): the lockers request is sent without waiting for the
\* warehouses response, so while the warehouses request is in flight the
\* lockers request is in flight too, and loading is cleared only after both
\* requests were sent and have settled.
C12_RequestsConcurrent ==
    /\ pc = "awaitWarehouses" => sent.lockers > 0
    /\ (pc = "done" /\ ~loading) => (sent.warehouses > 0 /\ sent.lockers > 0)

\* neither list request got an OK answer: the warehouses request failed, and
\* the lockers request failed or (after a rejected warehouses fetch) was not sent
BothFetchesFailed ==
    /\ net.warehouses.outcome \in {"rejected", "notok"}
    /\ net.lockers.outcome \in {"rejected", "notok"}

\* the tariff types that need a warehouse or a locker somewhere
ServiceTariffs ==
    {"OFFICE_OFFICE", "OFFICE_DOOR", "DOOR_OFFICE", "OFFICE_POSTAMAT", "DOOR_POSTAMAT"}

\* C13: after a load in which both fetches failed both lists are empty, and
\* shouldDisableCalculation returns true for every selected origin and
\* destination and every tariff type other than DOOR_DOOR.
C13_FailedLoadDisablesAll ==
    (pc = "done" /\ BothFetchesFailed)
        => /\ warehouses = <<>> /\ lockers = <<>>
           /\ (DisableCalled /\ BothSelected /\ call.tariffType \in ServiceTariffs)
                 => returned = TRUE

\* C13 witness: DOOR_POSTAMAT between two listed cities after both requests
\* were answered with a non-OK status
C13_Witness ==
    /\ pc = "done" /\ BothFetchesFailed /\ sent.lockers > 0
    /\ DisableCalled /\ call.tariffType = "DOOR_POSTAMAT"
    /\ Truthy(NameOf(call.originCity)) /\ Truthy(NameOf(call.destinationCity))
    /\ returned = TRUE

\* both list requests were answered OK with a parsable body
BothFetchesSucceeded == RequestSucceeded("warehouses") /\ RequestSucceeded("lockers")

\* C14 (as claimed): for an OK response the list is set to the returned
\* service points both when the body is {data: {list: [...]}} and when it is
\* {data: [...]}.
C14_AcceptsEitherShape ==
    (pc = "done" /\ BothFetchesSucceeded)
        => /\ net.warehouses.shape \in {"list", "flat"} => warehouses = net.warehouses.items
           /\ net.lockers.shape \in {"list", "flat"} => lockers = net.lockers.items

\* C15: during one mount each endpoint is requested at most once, and after
\* a failed fetch the corresponding list is empty in every later state.
C15_NoRetries ==
    /\ sent.warehouses <= 1 /\ sent.lockers <= 1
    /\ RequestFailed("warehouses") => warehouses = <<>>
    /\ RequestFailed("lockers") => lockers = <<>>

\* C15 witness: an evaluator is called after a finished load whose lockers
\* request failed while the warehouses were loaded
C15_Witness ==
    /\ pc = "done" /\ call # NoCall
    /\ RequestFailed("lockers") /\ lockers = <<>>
    /\ warehouses # <<>>
    /\ sent = [warehouses |-> 1, lockers |-> 1]

\* the weight field holds a positive number
WeightIsPositive == ~ParseFloat(form.weight).nan /\ ParseFloat(form.weight).value > 0

\* a field of the form is missing or the weight is not a positive number
FormIncomplete ==
    \/ form.originCity = Null
    \/ form.destinationCity = Null
    \/ form.tariffType = NullTariff
    \/ form.weight = EmptyString
    \/ ~WeightIsPositive

\* C16: a calculateTariff call with a missing field or a weight that is not a
\* positive number sends no request, sets error to a message, and leaves
\* result and loading unchanged.
C16_ValidationFailure ==
    [][(CalculateTariff /\ FormIncomplete)
          => /\ inflight' = inflight
             /\ calcError' # Null
             /\ result' = result
             /\ calcLoading' = calcLoading]_vars

\* C16 witness: the message is shown for a form that is complete except for
\* a weight of zero, with no request in flight
C16_Witness ==
    /\ form.originCity # Null /\ form.destinationCity # Null
    /\ form.tariffType = "OFFICE_OFFICE" /\ form.weight = <<"0">>
    /\ citiesPc = "done" /\ convertedOriginCity # Null /\ convertedDestinationCity # Null
    /\ calcError = Some(FillAllFields)
    /\ inflight = <<>> /\ ~calcLoading

\* C17: when the await of a calculateTariff call settles with a rejected or
\* non-OK answer, error becomes calculationError, result is not replaced,
\* loading becomes false and no request is sent; a calculateTariff call sends
\* at most one request.
C17_CalculationFailure ==
    [][/\ \A i \in 1..Len(inflight) :
            (inflight' = RemoveAt(inflight, i) /\ ~inflight[i].ok)
               => /\ calcError' = Some(CalculationError)
                  /\ result' = result
                  /\ calcLoading' = FALSE
       /\ Len(inflight') <= Len(inflight) + 1
       /\ PostSent => SubSeq(inflight', 1, Len(inflight)) = inflight]_vars

\* C17 witness: a failed calculation after a successful one: the earlier
\* result is still there, the error is shown and nothing is in flight
C17_Witness ==
    /\ result # Null
    /\ calcError = Some(CalculationError)
    /\ ~calcLoading /\ inflight = <<>>
    /\ isFormValid /\ convertedOriginCity # Null /\ convertedDestinationCity # Null

\* C18: a step in which an evaluator is called leaves warehouses, lockers,
\* loading and error unchanged; a list changes only in the step in which the
\* body of its own response has been read, and becomes the fetched list.
C18_IndexReadOnly ==
    [][/\ call' # NoCall => UNCHANGED <<warehouses, lockers, loading, error>>
       /\ warehouses' # warehouses
             => (pc = "warehousesJson" /\ warehouses' = net.warehouses.items)
       /\ lockers' # lockers
             => (pc = "lockersJson" /\ lockers' = net.lockers.items)]_vars

\* C18 witness: shouldShowWarehouseWarning has been called after a load that
\* fetched two different non-empty lists, which are in place untouched
C18_Witness ==
    /\ pc = "done" /\ ShowCalled /\ returned.show
    /\ warehouses # <<>> /\ warehouses = net.warehouses.items
    /\ lockers # <<>> /\ lockers = net.lockers.items
    /\ warehouses # lockers
    /\ error = Null /\ ~loading

\* origin, destination and tariff type are selected and both cities are
\* found among the API cities
FormResolved ==
    /\ form.originCity # Null /\ form.destinationCity # Null
    /\ form.tariffType # NullTariff
    /\ convertedOriginCity # Null /\ convertedDestinationCity # Null

\* a requirement of the tariff table is unmet for the cities of the form
FormRequirementUnmet ==
    LET originName == Some(convertedOriginCity[1].name)
        destinationName == Some(convertedDestinationCity[1].name)
    IN  \/ NeedsOriginWarehouse(form.tariffType) /\ ~HasWarehouse(originName)
        \/ NeedsDestinationWarehouse(form.tariffType) /\ ~HasWarehouse(destinationName)
        \/ NeedsDestinationLocker(form.tariffType) /\ ~HasLocker(destinationName)

\* C19 (as claimed): with origin, destination and tariff type selected and
\* both cities resolved, isCalculationDisabled is true exactly when the
\* origin has no warehouse for an OFFICE_* tariff, or the destination has no
\* warehouse for a *_OFFICE tariff, or no locker for a *_POSTAMAT tariff.
\* Stated for the states after the index load, when the lists are final.
C19_CalculatorFollowsTable ==
    (FormResolved /\ pc = "done") => (isCalculationDisabled <=> FormRequirementUnmet)


----------------------------------------------------------------------------
(* Properties of the matching variants *)

\* C20: for every list and every name, strict-equality hasWarehouse true
\* implies trim + lower-case hasWarehouse true, which implies normalised
\* hasWarehouse true; the same chain holds for hasLocker.
C20_VariantsIncreasinglyPermissive ==
    call.fn \in {"hasWarehouse", "hasLocker"}
        => /\ returned.strict => returned.trimLower
           /\ returned.trimLower => returned.normalized

\* C20 witness: a name with leading white space and another letter case is
\* refused by strict equality and accepted by the two other variants; and a
\* name with a special character is accepted by the normalised variant only
C20_Witness ==
    \/ /\ call.fn = "hasWarehouse" /\ call.cityName = Some(LeadLowerTa)
       /\ returned = VariantResults(FALSE, TRUE, TRUE)
    \/ /\ call.fn = "hasLocker" /\ call.cityName = Some(TaDash)
       /\ returned = VariantResults(FALSE, FALSE, TRUE)

\* C21 (as claimed): in the normalised variant, for every list and every
\* city name hasLocker over the list returns what hasWarehouse returns over
\* the same list.
C21_LockerMatchesLikeWarehouse ==
    warehouses = lockers
        => /\ call.fn = "hasWarehouse"
                => returned.normalized = HasLockerNormalized(call.cityName)
           /\ call.fn = "hasLocker"
                => returned.normalized = HasWarehouseNormalized(call.cityName)

\* the entries of a list whose city does not normalise to the empty string
NonEmptyEntries(list) ==
    SelectSeq(list, LAMBDA entry : NormalizeCityName(entry.city) # EmptyString)

\* the normalised variant accepts the name for a reason other than containment
\* of an empty normalised string: a case-insensitive match, or a fallback
\* match of a non-empty normalised name with a non-empty normalised entry
ProperWarehouseMatch(list, cityName) ==
    \/ ExactMatch(list, cityName)
    \/ /\ NormalizeCityName(cityName) # EmptyString
       /\ NormalizedWarehouseMatch(NonEmptyEntries(list), cityName)

ProperLockerMatch(list, cityName) ==
    \/ ExactMatch(list, cityName)
    \/ /\ NormalizeCityName(cityName) # EmptyString
       /\ NormalizedLockerMatch(NonEmptyEntries(list), cityName)

\* C26 (as claimed): the normalised hasWarehouse / hasLocker return true only
\* for a case-insensitive match or a fallback match between a non-empty
\* normalised name and a non-empty normalised entry; a name that normalises
\* to the empty string matches nothing else.
C26_EmptyNormalisedNameMatchesNothing ==
    /\ (call.fn = "hasWarehouse" /\ returned.normalized)
          => ProperWarehouseMatch(warehouses, call.cityName[1])
    /\ (call.fn = "hasLocker" /\ returned.normalized)
          => ProperLockerMatch(lockers, call.cityName[1])

\* C22 (as claimed): calculateTariff sends the POST only in states where
\* canCalculate() holds: with a valid form but an unresolved city or a
\* missing coordinate no request is sent.
C22_PostOnlyWhenCanCalculate ==
    [][PostSent => canCalculate]_vars

\* C23 (as claimed): in every state where isCalculationDisabled() returns
\* true, warehouseWarning.show is true.
C23_BlockedImpliesWarning ==
    isCalculationDisabled => warehouseWarning.show

\* C24 (as claimed): loading is true in every state in which a calculate
\* request is in flight, also when calculateTariff was invoked again before
\* an earlier call has finished.
C24_LoadingWhileInFlight ==
    inflight # <<>> => calcLoading

\* the request body was built from the form values currently held
BuiltFromForm(body) ==
    /\ isFormValid
    /\ convertedOriginCity # Null /\ convertedDestinationCity # Null
    /\ body = RequestBody(convertedOriginCity[1], convertedDestinationCity[1],
                          ParseFloat(form.weight).value, form.tariffType)

\* C25 (as claimed): the response of a request that was started before
\* resetForm or before a later updateForm never sets result: a step that sets
\* result to a tariff result sets it to the result of a request built from
\* the form values held at that moment.
C25_NoStaleResult ==
    [][(result' # result /\ result' # Null)
          => \E i \in 1..Len(inflight) :
                /\ result' = Some(TariffResult(inflight[i].body))
                /\ BuiltFromForm(inflight[i].body)]_vars

\* C27 (as claimed): shouldShowWarehouseWarning returns show=true only when
\* both an origin city and a destination city are selected.
C27_WarningNeedsBothCities ==
    (ShowCalled /\ returned.show) => BothSelected


----------------------------------------------------------------------------
(* Properties of the loads *)

\* C28: after mount the loading flag of useWarehouseCheck eventually becomes
\* false and stays false, whatever the two fetches answer, provided every
\* issued request settles; the same holds for citiesLoading.
C28_LoadingEventuallyFalse ==
    /\ <>[](~loading)
    /\ <>[](~citiesLoading)

\* C28 witness: both loads have ended, the index load in its catch block
\* after the lockers body could not be read, and both flags are false
C28_Witness ==
    /\ pc = "done" /\ citiesPc = "done"
    /\ sent = [warehouses |-> 1, lockers |-> 1]
    /\ net.lockers.shape = "malformed" /\ error # Null
    /\ ~loading /\ ~citiesLoading

====
